---------------------------- MODULE Spec2Model ----------------------------
(***************************************************************************)
(* A model of VehicleDataRecorder (src/services/VehicleDataRecorder.ts):   *)
(* the recorder's fields, the two timers it owns (the periodic sampler, a  *)
(* setInterval, and the inactivity watchdog, a setTimeout), the in-flight  *)
(* invocations of the asynchronous finalize(), and the listeners.          *)
(*                                                                         *)
(* JavaScript runs one handler at a time to completion, so every public    *)
(* method, every timer callback and every continuation of finalize() after *)
(* an await is one atomic action.  Time is discrete: Advance lets StepMs   *)
(* milliseconds pass and is disabled while a timer is due; timers due at   *)
(* the same instant fire in either order.                                  *)
(***************************************************************************)
EXTENDS Integers, Sequences, FiniteSets, Bags, TLC

VARIABLES
    status,            \* RecorderStatus
    rawFrames,         \* RawFrame[]
    snapshots,         \* Snapshot[]
    framesSeen,        \* number
    inactivityTimer,   \* handle of the last watchdog timer created, or NULL_TIMER
    samplerTimer,      \* handle of the sampler interval, or NULL_TIMER
    lastFolderPath,
    lastCsvPath,
    lastTrcPath,
    lastZipPath,
    latestDecoded,     \* the one decoded-signal state held
    listeners,         \* Set<() => void>
    timeouts,          \* the runtime's pending setTimeout timers: {[id, left]}
    intervals,         \* the runtime's pending setInterval timers: {[id, left]}
    calls,             \* bag of the finalize() invocations suspended at an await
    sinceFrame,        \* history: ms since the last truthy onRawFrame (capped)
    last               \* history: what the last handler did

progVars == <<status, rawFrames, snapshots, framesSeen, inactivityTimer, samplerTimer,
              lastFolderPath, lastCsvPath, lastTrcPath, lastZipPath, latestDecoded,
              listeners, timeouts, intervals, calls>>

vars == <<status, rawFrames, snapshots, framesSeen, inactivityTimer, samplerTimer,
          lastFolderPath, lastCsvPath, lastTrcPath, lastZipPath, latestDecoded,
          listeners, timeouts, intervals, calls, sinceFrame, last>>

----------------------------------------------------------------------------
(* Program constants.  The two buffer caps are 500,000 and 100,000 in the  *)
(* source; the model keeps the comparisons against them and scales the     *)
(* values down so that a full buffer is reachable.                         *)

INACTIVITY_MS == 2000

CSV_SAMPLE_MS == 1000

MAX_RAW_FRAMES == 3

MAX_SNAPSHOTS == 2

(* Bounds of the model. *)

MaxFramesSeen == 4

MaxInflight == 1

StepMs == CSV_SAMPLE_MS

SinceCap == INACTIVITY_MS + StepMs

\* the callbacks the presentation layer may register
Listeners == {"ui"}

\* the distinct folder names `new Date()` may give a finalize(): the stamp of
\* lines 232-243 names the files and is read by no statement of the recorder
\* before line 260, so a call draws its stamp where it records its paths
Stamps == {1, 2}

RecorderStatus == {"idle", "arming", "recording", "finalizing", "ready", "error"}

NULL_TIMER == 0

NULL_PATH == [kind |-> "null", stamp |-> 0]

Range(f) == {f[i] : i \in DOMAIN f}

Min(a, b) == IF a < b THEN a ELSE b

Max(a, b) == IF a > b THEN a ELSE b

----------------------------------------------------------------------------
(* Strings *)

RECURSIVE padStart(_, _, _)
padStart(s, n, c) == IF Len(s) >= n THEN s ELSE padStart(c \o s, n, c)

RECURSIVE padEnd(_, _, _)
padEnd(s, n, c) == IF Len(s) >= n THEN s ELSE padEnd(s \o c, n, c)

HexDigits == <<"0", "1", "2", "3", "4", "5", "6", "7",
               "8", "9", "A", "B", "C", "D", "E", "F">>

\* Number.prototype.toString(16).toUpperCase() of a non-negative integer
RECURSIVE toHexUpper(_)
toHexUpper(n) ==
    IF n < 16 THEN HexDigits[n + 1]
    ELSE toHexUpper(n \div 16) \o HexDigits[(n % 16) + 1]

\* String.prototype.toUpperCase() on the identifier strings the inputs use
toUpperCase(s) ==
    CASE s = "1f" -> "1F"
      [] OTHER -> s

RECURSIVE join(_, _)
join(seq, sep) ==
    IF Len(seq) = 0 THEN ""
    ELSE IF Len(seq) = 1 THEN seq[1]
    ELSE seq[1] \o sep \o join(Tail(seq), sep)

\* (ms / 1000).toFixed(3) of a non-negative integer number of milliseconds
toFixed3(ms) == ToString(ms \div 1000) \o "." \o padStart(ToString(ms % 1000), 3, "0")

----------------------------------------------------------------------------
(* Inputs.  A raw frame as a caller hands it over: falsy (null/undefined), *)
(* or an object whose id is a number, a string or absent.                  *)

FalsyFrame ==
    [falsy |-> TRUE, idType |-> "undefined", idNum |-> 0, idStr |-> "",
     timeOffsetMs |-> 0, bytes |-> <<>>]

NumberIdFrame ==
    [falsy |-> FALSE, idType |-> "number", idNum |-> 26, idStr |-> "",
     timeOffsetMs |-> 1500, bytes |-> <<10>>]

StringIdFrame ==
    [falsy |-> FALSE, idType |-> "string", idNum |-> 0, idStr |-> "1f",
     timeOffsetMs |-> 0, bytes |-> <<>>]

FrameInputs == {FalsyFrame, NumberIdFrame, StringIdFrame}

\* the k-th frame of a bus stream: the time offsets grow by 500 ms and the
\* identifiers alternate between a number and a string
StreamFrame(k) ==
    IF k % 2 = 1 THEN [NumberIdFrame EXCEPT !.timeOffsetMs = 500 * k]
    ELSE [StringIdFrame EXCEPT !.timeOffsetMs = 500 * k]

\* what the bus may hand over next: nothing usable, or the next frame of the
\* stream, counted from the frames seen so far
CoreFrames == {FalsyFrame, StreamFrame(framesSeen + 1)}

\* the value normalizeRawFrame returns for a falsy frame
NULL_FRAME == [timeOffsetMs |-> 0, type |-> "null", id |-> "", bytes |-> <<>>]

normalizeBytes(bytes) ==
    [i \in 1..Len(bytes) |-> padStart(toHexUpper(bytes[i]), 2, "0")]

\* the check `if (!frame) return null` is missing
normalizeRawFrame_noNullCheck(frame) ==
    [timeOffsetMs |-> frame.timeOffsetMs,
     type |-> "Rx",
     id |-> IF frame.idType = "number" THEN toHexUpper(frame.idNum)
            ELSE IF frame.idType = "string" THEN frame.idStr
            ELSE "00000000",
     bytes |-> normalizeBytes(frame.bytes)]

normalizeRawFrame(frame) ==
    IF frame.falsy THEN NULL_FRAME
    ELSE [timeOffsetMs |-> frame.timeOffsetMs,
          type |-> "Rx",
          id |-> IF frame.idType = "number" THEN toHexUpper(frame.idNum)
                 ELSE IF frame.idType = "string" THEN frame.idStr
                 ELSE "00000000",
          bytes |-> normalizeBytes(frame.bytes)]

(* A decoded-signal payload: falsy, or a mapping that may carry            *)
(* messageMCU1.speed and messageMCU3.faultMessages.                        *)

EMPTY_DECODED == [falsy |-> FALSE, hasSpeed |-> FALSE, speed |-> 0, faultMessages |-> <<>>]

FalsyDecoded == [falsy |-> TRUE, hasSpeed |-> FALSE, speed |-> 0, faultMessages |-> <<>>]

SpeedDecoded ==
    [falsy |-> FALSE, hasSpeed |-> TRUE, speed |-> 42, faultMessages |-> <<"OverTemp">>]

DecodedInputs == {FalsyDecoded, EMPTY_DECODED, SpeedDecoded}

\* the payloads of a decoder that has no signal to report
CoreDecoded == {FalsyDecoded, EMPTY_DECODED}

\* decoded || {}
orEmpty(decoded) == IF decoded.falsy THEN EMPTY_DECODED ELSE decoded

\* the snapshot is built from the defaults, whatever the recorder holds
makeSnapshot_ignoresDecoded(decoded) ==
    [speed |-> 0, controllerFaults |-> "None"]

\* the speed and controllerFaults fields of the snapshot; the wall-clock
\* timestamp and the other signal fields follow the same pattern
makeSnapshot(decoded) ==
    [speed |-> IF decoded.hasSpeed THEN decoded.speed ELSE 0,
     controllerFaults |-> IF Len(decoded.faultMessages) > 0
                          THEN join(decoded.faultMessages, ", ")
                          ELSE "None"]

----------------------------------------------------------------------------
(* Serialisation *)

\* Papa.unparse(array of objects): a header line of the field names, then
\* one line per object; the empty array gives the empty string (no line)
unparse(snaps) ==
    IF Len(snaps) = 0 THEN <<>>
    ELSE <<"speed,controllerFaults">>
         \o [i \in 1..Len(snaps) |->
                ToString(snaps[i].speed) \o "," \o snaps[i].controllerFaults]

trcLine(f, i) ==
    LET msgNum    == padEnd(ToString(i) \o ")", 5, " ")
        timestamp == padStart(toFixed3(f.timeOffsetMs), 8, " ")
        frameType == padStart(f.type, 3, " ")
        canId     == padStart(toUpperCase(f.id), 8, "0")
        dlc       == padStart(ToString(Len(f.bytes)), 2, " ")
        data      == padEnd(join(f.bytes, " "), 23, " ")
    IN msgNum \o timestamp \o " " \o frameType \o "  " \o canId \o " " \o dlc \o " " \o data

\* the loop over the frames starts one frame late
generateTRC_skipsFirst(frames) ==
    LET header == <<"; Generated by React Native CAN Logger",
                    "; Message Number | Time Offset (s) | Type | CAN ID (hex) | DLC | Data Bytes (hex)",
                    "">>
        body == [i \in 1..(Len(frames) - 1) |-> trcLine(frames[i + 1], i + 1)]
    IN header \o (IF Len(body) = 0 THEN <<"">> ELSE body)

\* the lines of `${header}\n${body.join("\n")}` split at "\n"
generateTRC(frames) ==
    LET header == <<"; Generated by React Native CAN Logger",
                    "; Message Number | Time Offset (s) | Type | CAN ID (hex) | DLC | Data Bytes (hex)",
                    "">>
        body == [i \in 1..Len(frames) |-> trcLine(frames[i], i)]
    IN header \o (IF Len(body) = 0 THEN <<"">> ELSE body)

----------------------------------------------------------------------------
(* Reads *)

getStatus == status

getStats == [frames |-> Len(rawFrames), rows |-> Len(snapshots)]

paths == <<lastFolderPath, lastCsvPath, lastTrcPath, lastZipPath>>

FolderPath(stamp) == [kind |-> "folder", stamp |-> stamp]

CsvPath(stamp) == [kind |-> "csv", stamp |-> stamp]

TrcPath(stamp) == [kind |-> "trc", stamp |-> stamp]

ZipPath(stamp) == [kind |-> "zip", stamp |-> stamp]

----------------------------------------------------------------------------
(* History of the last handler: its name, the path it took, the statuses   *)
(* it assigned in order, the I/O operations it started, how often it       *)
(* invoked each listener, and what its caller got back.                    *)

\* notify(), called n times by one handler
notify(n) == [l \in Listeners |-> IF l \in listeners THEN n ELSE 0]

\* csvStr and trcStr are the texts finalize() serialised in the step, if any
Did(op, arg, trail, io, n, result) ==
    [op |-> op, arg |-> arg, trail |-> trail, io |-> io,
     notified |-> notify(n), result |-> result, csvStr |-> <<>>, trcStr |-> <<>>]

Init ==
    /\ status = "idle"
    /\ rawFrames = <<>>
    /\ snapshots = <<>>
    /\ framesSeen = 0
    /\ inactivityTimer = NULL_TIMER
    /\ samplerTimer = NULL_TIMER
    /\ lastFolderPath = NULL_PATH
    /\ lastCsvPath = NULL_PATH
    /\ lastTrcPath = NULL_PATH
    /\ lastZipPath = NULL_PATH
    /\ latestDecoded = EMPTY_DECODED
    /\ listeners = {}
    /\ timeouts = {}
    /\ intervals = {}
    /\ calls = EmptyBag
    /\ sinceFrame = SinceCap
    /\ last = [op |-> "init", arg |-> "", trail |-> <<>>, io |-> <<>>,
               notified |-> [l \in Listeners |-> 0], result |-> "none",
               csvStr |-> <<>>, trcStr |-> <<>>]

----------------------------------------------------------------------------
(* Timers.  A handle is a positive number the runtime never hands out      *)
(* twice.  The model keeps the timeouts and the intervals apart and reuses *)
(* a number once no pending timer of that kind holds it: the field that    *)
(* held it is overwritten by the very statement that creates the timer.    *)

TimerIds(pending) == {t.id : t \in pending}

FreshId(pending) ==
    CHOOSE i \in 1..(Cardinality(pending) + 1) : i \notin TimerIds(pending)

\* clearTimeout / clearInterval: drops the pending timer with that handle,
\* and does nothing for a handle that already fired
clearTimer(pending, handle) == {t \in pending : t.id # handle}

\* no interval is created
startSampler_never == [timer |-> samplerTimer, pending |-> intervals]

\* startSampler(): [timer, pending] = the samplerTimer field and the pending intervals
startSampler ==
    IF samplerTimer # NULL_TIMER THEN [timer |-> samplerTimer, pending |-> intervals]
    ELSE LET id == FreshId(intervals)
         IN [timer |-> id,
             pending |-> intervals \cup {[id |-> id, left |-> CSV_SAMPLE_MS]}]

\* stopSampler(): the pending intervals afterwards (the field becomes NULL_TIMER)
stopSampler ==
    IF samplerTimer # NULL_TIMER THEN clearTimer(intervals, samplerTimer) ELSE intervals

\* a pending watchdog is left to run instead of being replaced
armInactivityTimeout_keepsPending(pending) ==
    IF inactivityTimer \in TimerIds(pending)
    THEN [timer |-> inactivityTimer, pending |-> pending]
    ELSE LET id == FreshId(pending)
         IN [timer |-> id,
             pending |-> pending \cup {[id |-> id, left |-> INACTIVITY_MS]}]

\* the pending timer is not cleared before the new one is set
armInactivityTimeout_noClear(pending) ==
    LET id == FreshId(pending)
    IN [timer |-> id,
        pending |-> pending \cup {[id |-> id, left |-> INACTIVITY_MS]}]

\* armInactivityTimeout() on the pending timeouts `pending`
armInactivityTimeout(pending) ==
    LET cleared == IF inactivityTimer # NULL_TIMER
                   THEN clearTimer(pending, inactivityTimer) ELSE pending
        id == FreshId(cleared)
    IN [timer |-> id,
        pending |-> cleared \cup {[id |-> id, left |-> INACTIVITY_MS]}]

----------------------------------------------------------------------------
(* updateDecoded(decoded) *)

UpdateDecoded(decoded) ==
    /\ latestDecoded' = orEmpty(decoded)
    /\ last' = Did("updateDecoded", "", <<>>, <<>>, 0, "none")
    /\ UNCHANGED <<status, rawFrames, snapshots, framesSeen, inactivityTimer, samplerTimer,
                   lastFolderPath, lastCsvPath, lastTrcPath, lastZipPath,
                   listeners, timeouts, intervals, calls, sinceFrame>>

(* onRawFrame(frame) *)

\* the cap test is off by one
canPushFrame_offByOne(len) == len <= MAX_RAW_FRAMES

\* this.rawFrames.length < MAX_RAW_FRAMES
canPushFrame(len) == len < MAX_RAW_FRAMES

\* the frame goes to the front of the buffer
pushFrame_newestFirst(frames, nf) ==
    IF canPushFrame(Len(frames)) THEN <<nf>> \o frames ELSE frames

\* a full buffer gives up its oldest frame
pushFrame_dropOldest(frames, nf) ==
    IF canPushFrame(Len(frames)) THEN Append(frames, nf) ELSE Append(Tail(frames), nf)

\* if (this.rawFrames.length < MAX_RAW_FRAMES) this.rawFrames.push(nf);
pushFrame(frames, nf) ==
    IF canPushFrame(Len(frames)) THEN Append(frames, nf) ELSE frames

\* only frames that fit the buffer are counted
countFrame_capped(fs) == IF fs < MAX_RAW_FRAMES THEN fs + 1 ELSE fs

\* this.framesSeen++
countFrame(fs) == fs + 1

\* the confirmation waits for a third frame
onRawFrameBranch_thirdFrame(st, fs) ==
    IF st = "idle" THEN "arm"
    ELSE IF st = "arming" /\ fs >= 3 THEN "confirm"
    ELSE IF st = "recording" THEN "rearm"
    ELSE "none"

\* the branch onRawFrame takes after counting the frame: st is the status,
\* fs the frames-seen counter after the increment
onRawFrameBranch(st, fs) ==
    IF st = "idle" THEN "arm"
    ELSE IF st = "arming" /\ fs >= 2 THEN "confirm"
    ELSE IF st = "recording" THEN "rearm"
    ELSE "none"

OnRawFrame(frame) ==
    LET nf == normalizeRawFrame(frame)
        branch == onRawFrameBranch(status, countFrame(framesSeen))
        sampler == startSampler
        armed == armInactivityTimeout(timeouts)
        arg == IF frame.falsy THEN "falsy" ELSE "truthy"
    IN
    IF nf = NULL_FRAME
    THEN /\ last' = Did("onRawFrame", arg, <<>>, <<>>, 0, "none")
         /\ UNCHANGED <<progVars, sinceFrame>>
    ELSE /\ framesSeen < MaxFramesSeen
         /\ rawFrames' = pushFrame(rawFrames, nf)
         /\ framesSeen' = countFrame(framesSeen)
         /\ sinceFrame' = 0
         /\ IF branch \in {"arm", "confirm"}
            THEN /\ samplerTimer' = sampler.timer
                 /\ intervals' = sampler.pending
                 /\ inactivityTimer' = armed.timer
                 /\ timeouts' = armed.pending
                 /\ status' = IF branch = "arm" THEN "arming" ELSE "recording"
                 /\ last' = Did("onRawFrame", arg, <<status'>>, <<>>, 1, "none")
            ELSE IF branch = "rearm"
            THEN /\ inactivityTimer' = armed.timer
                 /\ timeouts' = armed.pending
                 /\ last' = Did("onRawFrame", arg, <<>>, <<>>, 0, "none")
                 /\ UNCHANGED <<status, samplerTimer, intervals>>
            ELSE /\ last' = Did("onRawFrame", arg, <<>>, <<>>, 0, "none")
                 /\ UNCHANGED <<status, samplerTimer, intervals, inactivityTimer,
                                timeouts>>
         /\ UNCHANGED <<snapshots, lastFolderPath, lastCsvPath, lastTrcPath, lastZipPath,
                        latestDecoded, listeners, calls>>

(* The sampler's interval callback *)

\* this.snapshots.length < MAX_SNAPSHOTS
canPushSnapshot(len) == len < MAX_SNAPSHOTS

SamplerTick ==
    \E t \in intervals :
        /\ t.left = 0
        /\ intervals' = (intervals \ {t}) \cup {[t EXCEPT !.left = CSV_SAMPLE_MS]}
        /\ IF canPushSnapshot(Len(snapshots))
           THEN /\ snapshots' = Append(snapshots, makeSnapshot(latestDecoded))
                /\ last' = Did("samplerTick", "pushed", <<>>, <<>>, 1, "none")
           ELSE /\ snapshots' = snapshots
                /\ last' = Did("samplerTick", "dropped", <<>>, <<>>, 0, "none")
        /\ UNCHANGED <<status, rawFrames, framesSeen, inactivityTimer, samplerTimer,
                       lastFolderPath, lastCsvPath, lastTrcPath, lastZipPath, latestDecoded,
                       listeners, timeouts, calls, sinceFrame>>

----------------------------------------------------------------------------
(* finalize(): the synchronous part, up to `await RNFS.mkdir(folder)`.     *)
(* `op` names the handler that calls it, `by` the caller the returned      *)
(* promise goes to ("manual": a caller that awaits it; "watchdog": the     *)
(* timer callback, which attaches .catch(() => {})).  A suspended call is  *)
(* [pc, by]: the await it is suspended at and its caller.  The environment *)
(* invokes a finalize() that will suspend only while fewer than maxCalls   *)
(* calls are suspended.                                                    *)

\* finalize() without its guard
finalizeGuard_missing(st) == FALSE

\* if (this.status === "finalizing") return;
finalizeGuard(st) == st = "finalizing"

\* the export is abandoned only when both buffers are empty
buffersEmpty_both(rows, frames) == rows = 0 /\ frames = 0

\* !this.snapshots.length || !this.rawFrames.length
buffersEmpty(rows, frames) == rows = 0 \/ frames = 0

Io(op, target) == [op |-> op, target |-> target]

FinalizeSync(op, by, maxCalls) ==
    /\ \/ status = "finalizing"
       \/ Len(snapshots) = 0
       \/ Len(rawFrames) = 0
       \/ BagCardinality(calls) < maxCalls
    /\ IF finalizeGuard(status)
       THEN /\ last' = Did(op, "guard", <<>>, <<>>, 0, "resolved")
            /\ UNCHANGED <<status, samplerTimer, intervals, calls>>
       ELSE IF buffersEmpty(Len(snapshots), Len(rawFrames))
       THEN /\ status' = "idle"
            /\ samplerTimer' = NULL_TIMER
            /\ intervals' = stopSampler
            /\ last' = Did(op, "empty", <<"finalizing", "idle">>, <<>>, 2, "resolved")
            /\ UNCHANGED calls
       ELSE /\ calls' = calls (+) SetToBag({[pc |-> "mkdir", by |-> by]})
            /\ last' = Did(op, "export", <<"finalizing">>, <<Io("mkdir", "folder")>>,
                           1, "pending")
            /\ status' = "finalizing"
            /\ samplerTimer' = NULL_TIMER
            /\ intervals' = stopSampler

FinalizeCall(maxCalls) ==
    /\ FinalizeSync("finalize", "manual", maxCalls)
    /\ UNCHANGED <<rawFrames, snapshots, framesSeen, inactivityTimer,
                   lastFolderPath, lastCsvPath, lastTrcPath, lastZipPath, latestDecoded,
                   listeners, timeouts, sinceFrame>>

(* finalize(): the continuation after the await of call c resolves *)

\* the archive path is not recorded
recorded_noZip(stamp) ==
    [folder |-> FolderPath(stamp), csv |-> CsvPath(stamp),
     trc |-> TrcPath(stamp), zip |-> NULL_PATH]

\* the four paths a call records once zip() has resolved
recorded(stamp) ==
    [folder |-> FolderPath(stamp), csv |-> CsvPath(stamp),
     trc |-> TrcPath(stamp), zip |-> ZipPath(stamp)]

Suspended == BagToSet(calls)

IoDone(c) ==
    LET rest == calls (-) SetToBag({c}) IN
    /\ c \in Suspended
    /\ IF c.pc = "mkdir"
       THEN /\ calls' = rest (+) SetToBag({[c EXCEPT !.pc = "writeCsv"]})
            /\ last' = [Did("ioDone", c.pc, <<>>, <<Io("writeFile", "csv")>>,
                            0, "pending")
                           EXCEPT !.csvStr = unparse(snapshots),
                                  !.trcStr = generateTRC(rawFrames)]
            /\ UNCHANGED <<status, lastFolderPath, lastCsvPath, lastTrcPath, lastZipPath>>
       ELSE IF c.pc = "writeCsv"
       THEN /\ calls' = rest (+) SetToBag({[c EXCEPT !.pc = "writeTrc"]})
            /\ last' = Did("ioDone", c.pc, <<>>, <<Io("writeFile", "trc")>>,
                           0, "pending")
            /\ UNCHANGED <<status, lastFolderPath, lastCsvPath, lastTrcPath, lastZipPath>>
       ELSE IF c.pc = "writeTrc"
       THEN /\ calls' = rest (+) SetToBag({[c EXCEPT !.pc = "zip"]})
            /\ last' = Did("ioDone", c.pc, <<>>, <<Io("zip", "zip")>>, 0, "pending")
            /\ UNCHANGED <<status, lastFolderPath, lastCsvPath, lastTrcPath, lastZipPath>>
       ELSE /\ calls' = rest
            /\ \E stamp \in Stamps :
                   /\ lastFolderPath' = recorded(stamp).folder
                   /\ lastCsvPath' = recorded(stamp).csv
                   /\ lastTrcPath' = recorded(stamp).trc
                   /\ lastZipPath' = recorded(stamp).zip
            /\ status' = "ready"
            /\ last' = Did("ioDone", c.pc, <<"ready">>, <<>>, 1, "resolved")
    /\ UNCHANGED <<rawFrames, snapshots, framesSeen, inactivityTimer, samplerTimer,
                   latestDecoded, listeners, timeouts, intervals, sinceFrame>>

(* finalize(): the catch block, after the await of call c rejects *)

\* what the caller of finalize() gets when the catch block rethrows
rethrown(by) == IF by = "watchdog" THEN "swallowed" ELSE "rejected"

\* the catch block rethrows without recording the failure
catchStatus_unrecorded == "finalizing"

catchStatus == "error"

IoFailed(c) ==
    /\ c \in Suspended
    /\ status' = catchStatus
    /\ calls' = calls (-) SetToBag({c})
    /\ last' = Did("ioFailed", c.pc, <<catchStatus>>, <<>>, 1, rethrown(c.by))
    /\ UNCHANGED <<rawFrames, snapshots, framesSeen, inactivityTimer, samplerTimer,
                   lastFolderPath, lastCsvPath, lastTrcPath, lastZipPath, latestDecoded,
                   listeners, timeouts, intervals, sinceFrame>>

----------------------------------------------------------------------------
(* reset(), on the pending timeouts `pending` *)

\* reset() leaves the watchdog alone
cancelInactivity_forgotten(pending) == pending

\* if (this.inactivityTimer) { clearTimeout(this.inactivityTimer); ... }
cancelInactivity(pending) ==
    IF inactivityTimer # NULL_TIMER THEN clearTimer(pending, inactivityTimer) ELSE pending

ResetBody(op, arg, pending) ==
    /\ samplerTimer' = NULL_TIMER
    /\ intervals' = stopSampler
    /\ timeouts' = cancelInactivity(pending)
    /\ inactivityTimer' = NULL_TIMER
    /\ status' = "idle"
    /\ rawFrames' = <<>>
    /\ snapshots' = <<>>
    /\ framesSeen' = 0
    /\ lastFolderPath' = NULL_PATH
    /\ lastCsvPath' = NULL_PATH
    /\ lastTrcPath' = NULL_PATH
    /\ lastZipPath' = NULL_PATH
    /\ last' = Did(op, arg, <<"idle">>, <<>>, 1, "none")
    /\ UNCHANGED <<latestDecoded, listeners, calls, sinceFrame>>

Reset == ResetBody("reset", "", timeouts)

(* The watchdog's timeout callback *)

\* the expiry does nothing while recording
watchdogBranch_armingOnly(st) == IF st = "arming" THEN "reset" ELSE "none"

\* the callback forgets the arming case
watchdogBranch_recordingOnly(st) ==
    IF st = "recording" THEN "finalize" ELSE "none"

watchdogBranch(st) ==
    IF st = "recording" THEN "finalize"
    ELSE IF st = "arming" THEN "reset"
    ELSE "none"

WatchdogExpiry(maxCalls) ==
    \E t \in timeouts :
        /\ t.left = 0
        /\ LET rest == timeouts \ {t}
               branch == watchdogBranch(status)
           IN IF branch = "finalize"
              THEN /\ FinalizeSync("watchdog", "watchdog", maxCalls)
                   /\ timeouts' = rest
                   /\ UNCHANGED <<rawFrames, snapshots, framesSeen, inactivityTimer,
                                  lastFolderPath, lastCsvPath, lastTrcPath, lastZipPath,
                                  latestDecoded, listeners, sinceFrame>>
              ELSE IF branch = "reset"
              THEN ResetBody("watchdog", "reset", rest)
              ELSE /\ timeouts' = rest
                   /\ last' = Did("watchdog", "none", <<>>, <<>>, 0, "none")
                   /\ UNCHANGED <<status, rawFrames, snapshots, framesSeen, inactivityTimer,
                                  samplerTimer, lastFolderPath, lastCsvPath, lastTrcPath,
                                  lastZipPath, latestDecoded, listeners, intervals, calls,
                                  sinceFrame>>

----------------------------------------------------------------------------
(* subscribe(fn) and the function it returns *)

Subscribe(l) ==
    /\ listeners' = listeners \cup {l}
    /\ last' = Did("subscribe", "", <<>>, <<>>, 0, "none")
    /\ UNCHANGED <<status, rawFrames, snapshots, framesSeen, inactivityTimer, samplerTimer,
                   lastFolderPath, lastCsvPath, lastTrcPath, lastZipPath, latestDecoded,
                   timeouts, intervals, calls, sinceFrame>>

Unsubscribe(l) ==
    /\ listeners' = listeners \ {l}
    /\ last' = Did("unsubscribe", "", <<>>, <<>>, 0, "none")
    /\ UNCHANGED <<status, rawFrames, snapshots, framesSeen, inactivityTimer, samplerTimer,
                   lastFolderPath, lastCsvPath, lastTrcPath, lastZipPath, latestDecoded,
                   timeouts, intervals, calls, sinceFrame>>

(* StepMs milliseconds pass with no handler running; a due timer fires first *)

elapse(pending) == {[t EXCEPT !.left = Max(0, t.left - StepMs)] : t \in pending}

Advance ==
    /\ \A t \in timeouts \cup intervals : t.left > 0
    /\ timeouts' = elapse(timeouts)
    /\ intervals' = elapse(intervals)
    /\ sinceFrame' = Min(sinceFrame + StepMs, SinceCap)
    /\ last' = Did("advance", "", <<>>, <<>>, 0, "none")
    /\ UNCHANGED <<status, rawFrames, snapshots, framesSeen, inactivityTimer, samplerTimer,
                   lastFolderPath, lastCsvPath, lastTrcPath, lastZipPath, latestDecoded,
                   listeners, calls>>

----------------------------------------------------------------------------

(* One step of the recorder in an environment that hands it the frames of  *)
(* `frames` and the payloads of `decodeds`.                                *)
Step(frames, decodeds, maxCalls) ==
    \/ \E decoded \in decodeds : UpdateDecoded(decoded)
    \/ \E frame \in frames : OnRawFrame(frame)
    \/ SamplerTick
    \/ WatchdogExpiry(maxCalls)
    \/ FinalizeCall(maxCalls)
    \/ \E c \in Suspended : IoDone(c)
    \/ \E c \in Suspended : IoFailed(c)
    \/ Reset
    \/ \E l \in Listeners : Subscribe(l)
    \/ \E l \in Listeners : Unsubscribe(l)
    \/ Advance

Next == Step(CoreFrames, CoreDecoded, MaxInflight)

Spec == Init /\ [][Next]_vars

\* the same recorder with one more finalize() allowed to be suspended
NextRace == Step(CoreFrames, CoreDecoded, MaxInflight + 1)

SpecRace == Init /\ [][NextRace]_vars

----------------------------------------------------------------------------
(* Properties *)

(* A recording session whose decoder reports signals: the payloads of      *)
(* DecodedInputs arrive between the frames and the ticks, exports are      *)
(* started by the watchdog and their I/O succeeds, and the screen          *)
(* subscribes and stays subscribed.                                        *)
NextDecoded ==
    \/ \E decoded \in DecodedInputs : UpdateDecoded(decoded)
    \/ \E frame \in CoreFrames : OnRawFrame(frame)
    \/ SamplerTick
    \/ WatchdogExpiry(MaxInflight)
    \/ \E c \in Suspended : IoDone(c)
    \/ Reset
    \/ \E l \in Listeners : Subscribe(l)
    \/ Advance

SpecDecoded == Init /\ [][NextDecoded]_vars

(* The recorder left to its timers: the application calls reset() but      *)
(* never finalize(), so every export is started by the watchdog.  Time     *)
(* passes, a due timer fires, and an I/O operation that was started        *)
(* completes or fails.                                                     *)
NextFair ==
    \/ \E frame \in CoreFrames : OnRawFrame(frame)
    \/ SamplerTick
    \/ WatchdogExpiry(MaxInflight)
    \/ \E c \in Suspended : IoDone(c)
    \/ \E c \in Suspended : IoFailed(c)
    \/ Reset
    \/ Advance

SpecFair ==
    /\ Init
    /\ [][NextFair]_vars
    /\ WF_vars(Advance)
    /\ WF_vars(SamplerTick)
    /\ WF_vars(WatchdogExpiry(MaxInflight))
    /\ WF_vars(\E c \in Suspended : IoDone(c) \/ IoFailed(c))

TruthyFrameStep == last'.op = "onRawFrame" /\ last'.arg = "truthy"

\* finalize() was invoked by the step, directly or by the watchdog callback
FinalizeInvoked == last.arg \in {"guard", "empty", "export"}

\* reset() ran in the step, directly or from the watchdog callback
ResetRan == last.op = "reset" \/ (last.op = "watchdog" /\ last.arg = "reset")

NotNotified == [l \in Listeners |-> 0]

\* C1: from idle the first truthy frame sets status to arming, and a truthy
\* frame that finds the status still arming sets it to recording, whatever
\* the frame holds and whatever framesSeen was when idle was entered.
C1_FirstArmsSecondRecords ==
    [][TruthyFrameStep =>
          /\ (status = "idle" => status' = "arming")
          /\ (status = "arming" => status' = "recording")]_vars

\* the second frame confirmed a recording that began from an idle state
\* whose framesSeen was not 0
C1_Witness ==
    /\ last.op = "onRawFrame"
    /\ last.trail = <<"recording">>
    /\ framesSeen > 2

\* C2: the raw-frame buffer never holds more than MAX_RAW_FRAMES entries and
\* the snapshot buffer never more than MAX_SNAPSHOTS.
C2_BuffersBounded ==
    /\ Len(rawFrames) <= MAX_RAW_FRAMES
    /\ Len(snapshots) <= MAX_SNAPSHOTS

\* both buffers are full, a frame and a snapshot have been dropped
C2_Witness ==
    /\ Len(rawFrames) = MAX_RAW_FRAMES
    /\ framesSeen > MAX_RAW_FRAMES
    /\ Len(snapshots) = MAX_SNAPSHOTS
    /\ last.op = "samplerTick"
    /\ last.arg = "dropped"

\* C3: reset() leaves status idle, getStats() = {frames: 0, rows: 0},
\* framesSeen 0, the four paths null, and no sampler and no watchdog pending.
C3_ResetPost ==
    ResetRan =>
        /\ getStatus = "idle"
        /\ getStats = [frames |-> 0, rows |-> 0]
        /\ framesSeen = 0
        /\ paths = <<NULL_PATH, NULL_PATH, NULL_PATH, NULL_PATH>>
        /\ samplerTimer = NULL_TIMER
        /\ inactivityTimer = NULL_TIMER
        /\ intervals = {}
        /\ timeouts = {}

\* reset() ran while a finalize() was suspended at an await
C3_Witness ==
    /\ last.op = "reset"
    /\ calls # EmptyBag

\* C4: finalize() invoked with an empty buffer and a status other than
\* finalizing ends in idle, never assigns error, starts no I/O, suspends no
\* call and leaves the four paths as they were.
C4_EmptyFinalize ==
    [][(FinalizeInvoked' /\ status # "finalizing"
            /\ (Len(snapshots) = 0 \/ Len(rawFrames) = 0)) =>
          /\ status' = "idle"
          /\ "error" \notin Range(last'.trail)
          /\ last'.io = <<>>
          /\ calls' = calls
          /\ paths' = paths
          /\ last'.result = "resolved"]_vars

\* an empty finalize() ran while paths of an earlier export were recorded
C4_Witness ==
    /\ last.op = "finalize"
    /\ last.arg = "empty"
    /\ lastZipPath # NULL_PATH

\* in recording exactly one watchdog timer is pending, the one the field
\* holds, and it is due INACTIVITY_MS after the last truthy frame
WatchdogTracksLastFrame ==
    status = "recording" =>
        /\ sinceFrame <= INACTIVITY_MS
        /\ timeouts = {[id |-> inactivityTimer, left |-> INACTIVITY_MS - sinceFrame]}

\* C5: in recording the watchdog is due INACTIVITY_MS after the last truthy
\* frame; its expiry in recording invokes finalize(), and leaves no watchdog
\* pending, so no second automatic finalize() follows until a frame arms it.
C5_AutoFinalizeOnce ==
    [][/\ WatchdogTracksLastFrame'
       /\ (last'.op = "watchdog" /\ status = "recording") =>
             /\ sinceFrame = INACTIVITY_MS
             /\ FinalizeInvoked'
             /\ last'.trail # <<>>
             /\ last'.trail[1] = "finalizing"
             /\ timeouts' = {}]_vars

\* the watchdog expired in recording and its finalize() began the export
C5_Witness ==
    /\ last.op = "watchdog"
    /\ last.arg = "export"
    /\ last.result = "pending"
    /\ sinceFrame = INACTIVITY_MS

\* C6: the watchdog expiring while status is arming resets the recorder:
\* status idle, both buffers empty, framesSeen 0, the sampler stopped.
C6_ArmingTimeoutResets ==
    [][(last'.op = "watchdog" /\ status = "arming") =>
          /\ status' = "idle"
          /\ rawFrames' = <<>>
          /\ snapshots' = <<>>
          /\ framesSeen' = 0
          /\ samplerTimer' = NULL_TIMER
          /\ intervals' = {}]_vars

\* the watchdog expired in arming after the sampler had taken snapshots
C6_Witness ==
    /\ last.op = "watchdog"
    /\ last.arg = "reset"
    /\ status = "idle"
    /\ sinceFrame = INACTIVITY_MS

\* C7: finalize() called while status is finalizing changes no field, no
\* timer and no suspended call, assigns no status, starts no I/O, notifies
\* no listener and returns normally.
C7_FinalizeWhileFinalizing ==
    [][(last'.op = "finalize" /\ status = "finalizing") =>
          /\ UNCHANGED progVars
          /\ last'.trail = <<>>
          /\ last'.io = <<>>
          /\ last'.notified = NotNotified
          /\ last'.result = "resolved"]_vars

\* the guard returned while a listener was registered
C7_Witness ==
    /\ last.op = "finalize"
    /\ last.arg = "guard"
    /\ status = "finalizing"
    /\ listeners # {}

\* C8: at most one finalize() is suspended in its export sequence at a time.
C8_AtMostOneExport == BagCardinality(calls) <= 1

\* C9: when an await of finalize() rejects, status becomes error, every
\* listener is notified, the paths stay as they were, and the failure goes
\* to a direct caller but is swallowed for a call the watchdog made.
C9_FailureRecorded ==
    [][last'.op = "ioFailed" =>
          /\ status' = "error"
          /\ \A l \in listeners : last'.notified[l] >= 1
          /\ paths' = paths
          /\ \E c \in Suspended :
                /\ calls' = calls (-) SetToBag({c})
                /\ last'.arg = c.pc
                /\ (c.by = "manual" => last'.result = "rejected")
                /\ (c.by = "watchdog" => last'.result = "swallowed")]_vars

\* the archive step of a watchdog-started finalize() failed
C9_Witness ==
    /\ last.op = "ioFailed"
    /\ last.arg = "zip"
    /\ last.result = "swallowed"
    /\ status = "error"
    /\ listeners # {}

SuccessStep == last'.op = "ioDone" /\ last'.arg = "zip"

\* the step records the four paths of one export and sets status to ready
RecordsExport ==
    /\ status' = "ready"
    /\ last'.trail = <<"ready">>
    /\ \E stamp \in Stamps :
          paths' = <<FolderPath(stamp), CsvPath(stamp), TrcPath(stamp), ZipPath(stamp)>>

\* C10 as stated: a finalize() whose I/O all succeeds records the four paths
\* and sets status to ready, and recorded paths change only in a reset().
C10_PathsHeldUntilReset ==
    [][/\ (SuccessStep => RecordsExport)
       /\ (lastZipPath # NULL_PATH /\ paths' # paths => ResetRan')]_vars

\* C10 as amended: a finalize() whose I/O all succeeds records the four paths
\* and sets status to ready, and the paths change only in a reset() or when
\* a finalize() completes and records its own.
C10_PathsHeldUntilResetOrExport ==
    [][/\ (SuccessStep => RecordsExport)
       /\ (paths' # paths => ResetRan' \/ SuccessStep)]_vars

\* the archive step of an export resolved: status is ready, the four paths
\* are recorded and the exported buffers are still held
C10_Witness ==
    /\ last.op = "ioDone"
    /\ last.arg = "zip"
    /\ status = "ready"
    /\ lastZipPath # NULL_PATH
    /\ Len(rawFrames) > 0
    /\ Len(snapshots) > 0

\* C11: a truthy onRawFrame adds exactly one to framesSeen, in every status
\* and with the buffer full or not; no other step changes framesSeen except
\* reset(), which sets it to 0.
C11_FramesSeenCounts ==
    [][/\ (TruthyFrameStep => framesSeen' = framesSeen + 1)
       /\ (framesSeen' # framesSeen =>
              TruthyFrameStep \/ (ResetRan' /\ framesSeen' = 0))]_vars

\* a frame was counted in status ready although the buffer was full
C11_Witness ==
    /\ last.op = "onRawFrame"
    /\ last.arg = "truthy"
    /\ status = "ready"
    /\ Len(rawFrames) = MAX_RAW_FRAMES
    /\ framesSeen = MAX_RAW_FRAMES + 1

\* C12 as stated: with the raw-frame buffer at its cap a truthy onRawFrame
\* stores nothing and raises nothing, and the frame count of getStats()
\* still goes up by one.
C12_StatCountsDroppedFrames ==
    [][(TruthyFrameStep /\ Len(rawFrames) = MAX_RAW_FRAMES) =>
          /\ rawFrames' = rawFrames
          /\ last'.result = "none"
          /\ getStats'.frames = getStats.frames + 1]_vars

\* what a listener can read back: the status, the statistics and the paths
Observable == <<getStatus, getStats, paths>>

\* C13 as stated: a step that changes the status, a count of getStats() or a
\* path invokes every registered listener, and no step invokes a listener
\* that is not registered.
C13_EveryChangeNotified ==
    [][/\ (Observable' # Observable =>
              \A l \in listeners : last'.notified[l] >= 1)
       /\ (\A l \in Listeners \ listeners : last'.notified[l] = 0)]_vars

\* C14 as stated: in ready or error no onRawFrame, updateDecoded, sampler
\* tick or watchdog expiry changes the status, and the status goes from
\* there to idle only in a reset().
C14_ReadyErrorTerminal ==
    [][(status \in {"ready", "error"}) =>
          /\ (last'.op \in {"onRawFrame", "updateDecoded", "samplerTick", "watchdog"} =>
                 status' = status)
          /\ (status' = "idle" => last'.op = "reset")]_vars

\* C15 as stated: the sampler appends a snapshot only while the status is
\* arming or recording.
C15_SamplerOnlyWhileStreaming ==
    [][(last'.op = "samplerTick" /\ snapshots' # snapshots) =>
          status \in {"arming", "recording"}]_vars

\* after is before with one entry added at the end
Extends(before, after) ==
    /\ Len(after) = Len(before) + 1
    /\ SubSeq(after, 1, Len(before)) = before

BufferStep(before, after) ==
    after = before \/ Extends(before, after) \/ after = <<>>

\* C16: a step leaves each buffer as it was, adds one entry at its end, or
\* empties it; a buffer that held entries is emptied only by reset(), and
\* reset() leaves both buffers empty.
C16_AppendOnlyUntilReset ==
    [][/\ BufferStep(rawFrames, rawFrames')
       /\ BufferStep(snapshots, snapshots')
       /\ ((rawFrames # <<>> /\ rawFrames' = <<>>) => ResetRan')
       /\ ((snapshots # <<>> /\ snapshots' = <<>>) => ResetRan')
       /\ (ResetRan' => rawFrames' = <<>> /\ snapshots' = <<>>)]_vars

\* the frame that filled the raw-frame buffer was appended behind the others
\* while the snapshot buffer was full
C16_Witness ==
    /\ last.op = "onRawFrame"
    /\ last.arg = "truthy"
    /\ Len(rawFrames) = MAX_RAW_FRAMES
    /\ framesSeen = MAX_RAW_FRAMES
    /\ rawFrames[MAX_RAW_FRAMES] = normalizeRawFrame(StreamFrame(MAX_RAW_FRAMES))
    /\ Len(snapshots) = MAX_SNAPSHOTS

\* the data rows of a CSV text: its lines after the header line
dataRows(csv) == IF Len(csv) = 0 THEN 0 ELSE Len(csv) - 1

\* the data lines of a trace text: its lines that are neither header lines
\* nor empty
dataLines(trc) ==
    Cardinality({i \in DOMAIN trc : trc[i] \notin Range(generateTRC(<<>>))})

\* The step in which the automatic finalize() of the scenario serialises the
\* buffers: it is the only call suspended, the watchdog made it, the status
\* is still finalizing and two frames have been seen since the recorder was
\* idle and empty (so the first armed, the second confirmed within
\* INACTIVITY_MS, and neither a frame nor a reset() came after).
ScenarioExport ==
    /\ last'.op = "ioDone"
    /\ last'.arg = "mkdir"
    /\ status = "finalizing"
    /\ framesSeen = 2
    /\ calls = SetToBag({[pc |-> "mkdir", by |-> "watchdog"]})

C18_FalsyFrameIgnored ==
    [][(last'.op = "onRawFrame" /\ last'.arg = "falsy") =>
          /\ UNCHANGED progVars
          /\ last'.trail = <<>>
          /\ last'.notified = NotNotified
          /\ last'.result = "none"]_vars

\* a falsy frame arrived during a recording with a listener registered
C18_Witness ==
    /\ last.op = "onRawFrame"
    /\ last.arg = "falsy"
    /\ status = "recording"
    /\ listeners # {}
    /\ timeouts # {}

\* a frame that arms the watchdog: one that finds the status idle, arming or
\* recording
ArmingFrameStep == TruthyFrameStep /\ status \in {"idle", "arming", "recording"}

\* C19: at most one watchdog timer is pending, the one the field holds; a
\* frame that arms the watchdog leaves exactly one timer pending, due a full
\* INACTIVITY_MS later, whatever was pending before; and the watchdog that
\* expires in arming or recording does so INACTIVITY_MS after the last frame.
C19_SlidingWatchdog ==
    [][/\ Cardinality(timeouts') <= 1
       /\ (\A t \in timeouts' : t.id = inactivityTimer')
       /\ (ArmingFrameStep =>
              timeouts' = {[id |-> inactivityTimer', left |-> INACTIVITY_MS]})
       /\ ((last'.op = "watchdog" /\ status \in {"arming", "recording"}) =>
              sinceFrame = INACTIVITY_MS)]_vars

\* a third or later frame arrived in recording after the sampler had ticked
\* and left one watchdog pending with its full period
C19_Witness ==
    /\ last.op = "onRawFrame"
    /\ last.arg = "truthy"
    /\ last.trail = <<>>
    /\ status = "recording"
    /\ sinceFrame = 0
    /\ timeouts = {[id |-> inactivityTimer, left |-> INACTIVITY_MS]}
    /\ Len(snapshots) > 0
    /\ framesSeen >= 3

\* C20 as stated: the status becomes finalizing only in a step that invokes
\* finalize(), and stops being finalizing only when an await of a finalize()
\* resolves or rejects.
C20_FinalizingOwnedByFinalize ==
    [][/\ ((status # "finalizing" /\ status' = "finalizing") => FinalizeInvoked')
       /\ ((status = "finalizing" /\ status' # "finalizing") =>
              last'.op \in {"ioDone", "ioFailed"})]_vars


\* C21: updateDecoded replaces the held decoded state (by the payload, or by
\* the empty mapping for a falsy payload) and changes nothing else and
\* notifies nobody; a sampler tick that stores a snapshot appends the
\* snapshot of the decoded state held at the tick (speed 42 and the fault
\* "OverTemp" for the payload that carries them, 0 and "None" for the empty
\* mapping) and leaves the stored snapshots and the held state as they were.
C21_DecodedHeldAndSampled ==
    [][/\ (last'.op = "updateDecoded") =>
              /\ latestDecoded' \in {EMPTY_DECODED, SpeedDecoded}
              /\ last'.notified = NotNotified
              /\ UNCHANGED <<status, rawFrames, snapshots, framesSeen, inactivityTimer,
                             samplerTimer, paths, listeners, timeouts, intervals, calls>>
       /\ (last'.op = "samplerTick" /\ last'.arg = "pushed") =>
              /\ Len(snapshots') = Len(snapshots) + 1
              /\ SubSeq(snapshots', 1, Len(snapshots)) = snapshots
              /\ latestDecoded = SpeedDecoded =>
                     snapshots'[Len(snapshots')] = [speed |-> 42, controllerFaults |-> "OverTemp"]
              /\ latestDecoded = EMPTY_DECODED =>
                     snapshots'[Len(snapshots')] = [speed |-> 0, controllerFaults |-> "None"]
              /\ latestDecoded' = latestDecoded]_vars

\* a tick stored the snapshot of a payload pushed after the first tick had
\* stored the snapshot of the empty mapping, with a listener subscribed
C21_Witness ==
    /\ last.op = "samplerTick"
    /\ last.arg = "pushed"
    /\ listeners # {}
    /\ snapshots = <<[speed |-> 0, controllerFaults |-> "None"],
                     [speed |-> 42, controllerFaults |-> "OverTemp"]>>


\* C22: in every reachable state the raw-frame buffer holds, in arrival
\* order, the first min(framesSeen, MAX_RAW_FRAMES) truthy frames received
\* since the last reset() (the k-th frame of the stream as normalizeRawFrame
\* stores it), so its length is min(framesSeen, MAX_RAW_FRAMES).
C22_BufferIsStreamPrefix ==
    /\ Len(rawFrames) = Min(framesSeen, MAX_RAW_FRAMES)
    /\ \A k \in 1..Len(rawFrames) :
           /\ rawFrames[k].timeOffsetMs = 500 * k
           /\ rawFrames[k].id = (IF k % 2 = 1 THEN "1A" ELSE "1f")

\* a frame arrived at a full buffer and was dropped
C22_Witness ==
    /\ last.op = "onRawFrame"
    /\ last.arg = "truthy"
    /\ Len(rawFrames) = MAX_RAW_FRAMES
    /\ framesSeen > MAX_RAW_FRAMES
    /\ status = "recording"


\* the lines of a trace text without its two header lines and without empty
\* lines
traceData(trc) ==
    SelectSeq(trc, LAMBDA line : line \notin Range(generateTRC(<<>>)))

\* C23 as stated: when finalize() serialises N snapshots and M raw frames,
\* the CSV has exactly N + 1 lines, a header and then the row of each
\* snapshot in sampling order, and the trace has its two header lines first
\* and exactly M data lines, the i-th carrying the number i and the i-th
\* frame in arrival order.
C23_ExportLineCounts ==
    [][(last'.op = "ioDone" /\ last'.arg = "mkdir") =>
          /\ Len(last'.csvStr) = Len(snapshots) + 1
          /\ last'.csvStr[1] = "speed,controllerFaults"
          /\ \A i \in 1..Len(snapshots) :
                 last'.csvStr[i + 1] =
                     ToString(snapshots[i].speed) \o "," \o snapshots[i].controllerFaults
          /\ SubSeq(last'.trcStr, 1, 2) = SubSeq(generateTRC(<<>>), 1, 2)
          /\ Len(traceData(last'.trcStr)) = Len(rawFrames)
          /\ \A i \in 1..Len(rawFrames) :
                 traceData(last'.trcStr)[i] = trcLine(rawFrames[i], i)]_vars


\* C24: whenever the status is arming or recording, the timer the
\* inactivityTimer field names is pending and the interval the samplerTimer
\* field names is running.
C24_TimersWhileStreaming ==
    status \in {"arming", "recording"} =>
        /\ inactivityTimer # NULL_TIMER
        /\ inactivityTimer \in TimerIds(timeouts)
        /\ samplerTimer # NULL_TIMER
        /\ samplerTimer \in TimerIds(intervals)

\* the recorder is recording, a second after the last frame: the sampler
\* has just ticked and the watchdog has a second left
C24_Witness ==
    /\ status = "recording"
    /\ last.op = "samplerTick"
    /\ sinceFrame = CSV_SAMPLE_MS
    /\ \E t \in timeouts : t.id = inactivityTimer /\ t.left = INACTIVITY_MS - CSV_SAMPLE_MS


\* C25 as stated: from the state reset() leaves (status idle, the four paths
\* null, no frame seen) the status stays idle and the paths stay null in
\* every step that is not an onRawFrame or finalize() call, also when a
\* finalize() was awaiting I/O when reset() was called.
C25_ResetHoldsUntilNextCall ==
    [][(/\ status = "idle"
        /\ framesSeen = 0
        /\ paths = <<NULL_PATH, NULL_PATH, NULL_PATH, NULL_PATH>>
        /\ last'.op # "onRawFrame"
        /\ ~FinalizeInvoked') =>
           /\ status' = "idle"
           /\ paths' = <<NULL_PATH, NULL_PATH, NULL_PATH, NULL_PATH>>]_vars


\* C26 as stated: right after every step that takes the status from idle to
\* arming the raw-frame buffer holds exactly the frame of that step, the
\* snapshot buffer is empty and framesSeen is 1, also when idle was reached
\* through a finalize() that found a buffer empty.
C26_SessionStartsClean ==
    [][(status = "idle" /\ status' = "arming") =>
          /\ rawFrames' = <<normalizeRawFrame(StreamFrame(framesSeen + 1))>>
          /\ snapshots' = <<>>
          /\ framesSeen' = 1]_vars


Settled == status \in {"idle", "ready", "error"}

\* a step in which no frame is stored and reset() is not called
QuietStep == ~TruthyFrameStep /\ last'.op # "reset"

\* C27: if from some point on no raw frame arrives and reset() is not
\* called (finalize() is never called manually), then, with time passing,
\* due timers firing and started I/O completing or failing, the status is
\* eventually idle, ready or error and stays so.
C27_EventuallySettles == <>[][QuietStep]_vars => <>[]Settled

\* the frames stopped while the recorder was recording, the watchdog started
\* the export INACTIVITY_MS later and its last I/O step resolved
C27_Witness ==
    /\ status = "ready"
    /\ last.op = "ioDone"
    /\ last.arg = "zip"
    /\ calls = EmptyBag
    /\ framesSeen >= 2
    /\ sinceFrame >= INACTIVITY_MS
    /\ timeouts = {}

=============================================================================
